---- MODULE Spec2Model ----
(***************************************************************************)
(* Model of the conversation manager of smart_pdf_renamer                  *)
(* (src/AIConversation.py): the message store, the sliding memory window,  *)
(* sticky messages, topic markers and the token counters.                  *)
(***************************************************************************)
EXTENDS Integers, Sequences, FiniteSets, TLC

\* ---------------------------------------------------------------- bounds
MaxLen     == 4   \* Spec: add_message is not called on a store of this length
MaxMemory  == 1   \* Spec: largest max_memory a caller passes
MaxTokens  == 4   \* Spec: no call takes a counter outside -MaxTokens..MaxTokens
MaxHistory == 4   \* HistorySpec: longest message list
MaxWindow  == 2   \* HistorySpec: largest max_memory_messages
MaxCallLen == 3   \* CallSpec, PersistSpec: longest message list a call is made on
MaxLines   == 3   \* PersistSpec: most lines of a file not written by save

\* ------------------------------------------------------ program constants
AIC_TYPE_TEXT      == "text"
AIC_TYPE_IMAGE_URL == "image_url"
AIC_TYPE_FILE      == "file"
AIC_TYPE_UNKNOWN   == "unknown"
AIC_TYPE_INTERNAL  == "internal"

AIC_ROLE_USER      == "user"
AIC_ROLE_SYSTEM    == "system"
AIC_ROLE_ASSISTANT == "assistant"
AIC_ROLE_UNKNOWN   == "unknown"
AIC_ROLE_DEVELOPER == "developer"
AIC_ROLE_INTERNAL  == "internal"

AIC_DEFAULT_SYSTEM_PROMPT == "You are an AI assistant trying to be useful"
AIC_COMMAND_NEWTOPIC      == "newtopic"
PictureTokens             == 765

\* Python's None, for optional string arguments
NoneVal == "<None>"

\* outcome of the last call: "ok" or the exception it raised
NoError    == "ok"
ValueError == "ValueError"
IndexError == "IndexError"
TypeError  == "TypeError"

VARIABLES
    messages,                    \* self.__messages
    max_memory_messages,         \* self.__max_memory_messages
    system_message_tokens,
    user_tokens,
    assistant_tokens,
    total_tokens,
    biggest_user_msg_tokens,
    biggest_assistant_msg_tokens,
    memory_user_tokens,
    memory_assistant_tokens,
    memory_total_tokens,
    raised,                      \* exception raised by the last call, or "ok"
    file,                        \* the file at the path save/load use
    last_call,                   \* history variable: the call a scenario made
    done_folder,                 \* names of the files in PDF_DONE_FOLDER
    how_many_pdfs,               \* len(my_pdfs) in the renamer's main()
    pdf_count,                   \* pdf_count in the renamer's main()
    moved                        \* history variable: the last PDF the loop handled

counters == << system_message_tokens, user_tokens, assistant_tokens, total_tokens,
               biggest_user_msg_tokens, biggest_assistant_msg_tokens,
               memory_user_tokens, memory_assistant_tokens, memory_total_tokens >>

\* the state of the renamer's main loop (smart_pdf_renamer.py)
renamer == << done_folder, how_many_pdfs, pdf_count, moved >>

vars == << messages, max_memory_messages, counters, raised, file, last_call, renamer >>

\* a file that does not exist
NoFile == [ exists |-> FALSE, lines |-> << >> ]

\* last_call records, in the scenario specifications (CallSpec, PersistSpec),
\* the one call made and the conversation it was made on. Spec, AddOnlySpec
\* and HistorySpec do not record their calls and leave it at NoCall.
\* It also keeps max_memory_messages as it was before the call and, for a
\* getter, the list the call returned.
NoCall == [ op |-> "", args |-> << >>, messages |-> << >>, counters |-> << >>,
            max_memory |-> 0, result |-> << >> ]

\* a step of a specification that neither touches the file nor records calls
NotRecorded == UNCHANGED << file, last_call, renamer >>

\* moved before the renamer's loop has handled a PDF
NoMove == [ outcome |-> "", proposed |-> "", exists |-> FALSE,
            target |-> "", target_exists |-> FALSE ]

\* the renamer is not running: the specifications of the conversation
\* start with it idle and leave it alone
RenamerIdle ==
    /\ done_folder = {}
    /\ how_many_pdfs = 0
    /\ pdf_count = 0
    /\ moved = NoMove

\* ---------------------------------------------------------------- helpers
Min(a, b) == IF a < b THEN a ELSE b

\* seq[k] with Python's indexing: 0-based, negative k counts from the end
PyAt(seq, k) == IF k >= 0 THEN seq[k + 1] ELSE seq[Len(seq) + k + 1]

\* seq[:-k] for k > 0
DropLast(seq, k) == SubSeq(seq, 1, Len(seq) - k)

\* del seq[i] (i is a 1-based position)
DelAt(seq, i) == SubSeq(seq, 1, i - 1) \o SubSeq(seq, i + 1, Len(seq))

\* ------------------------------------------------------------- AIMessage
\* the external tokenizer: tokens of a text
num_tokens_from_string(text) ==
    CASE text = ""                         -> 0
      [] text = "a"                        -> 1
      [] text = "bb"                       -> 2
      [] text = AIC_DEFAULT_SYSTEM_PROMPT  -> 2
      [] text = AIC_COMMAND_NEWTOPIC       -> 1
      [] OTHER                             -> 1

\* the estimate with a plausible slip: it depends on where the image is
num_tokens_from_picture_ByUrl(url) ==
    IF url = "http://u" THEN PictureTokens ELSE 2 * PictureTokens

num_tokens_from_picture(url) == PictureTokens

ValidRoles == { AIC_ROLE_USER, AIC_ROLE_ASSISTANT, AIC_ROLE_SYSTEM,
                AIC_ROLE_DEVELOPER, AIC_ROLE_INTERNAL }

Missing(s) == s = NoneVal \/ s = ""

\* "message" + s raises TypeError when s is None
Concat(s) == IF s = NoneVal THEN TypeError ELSE ValueError

\* AIMessage.__init__ with a plausible slip: the text of a text message is
\* checked against None only, so an empty text is accepted
AIMessageError_EmptyTextAccepted(role, text, type, url) ==
    IF role \notin ValidRoles THEN Concat(role)
    ELSE CASE type = AIC_TYPE_IMAGE_URL ->
                IF Missing(url) THEN ValueError
                ELSE IF text = NoneVal THEN TypeError ELSE NoError
           [] type = AIC_TYPE_INTERNAL ->
                IF Missing(text) THEN ValueError ELSE NoError
           [] type = AIC_TYPE_TEXT ->
                IF text = NoneVal THEN ValueError ELSE NoError
           [] type = AIC_TYPE_FILE -> ValueError
           [] OTHER -> Concat(type)

\* AIMessage.__init__ with a plausible slip: the role internal is accepted
\* with the type internal only
AIMessageError_InternalPaired(role, text, type, url) ==
    IF role \notin ValidRoles THEN Concat(role)
    ELSE IF role = AIC_ROLE_INTERNAL /\ type # AIC_TYPE_INTERNAL THEN ValueError
    ELSE CASE type = AIC_TYPE_IMAGE_URL ->
                IF Missing(url) THEN ValueError
                ELSE IF text = NoneVal THEN TypeError ELSE NoError
           [] type = AIC_TYPE_INTERNAL ->
                IF Missing(text) THEN ValueError ELSE NoError
           [] type = AIC_TYPE_TEXT ->
                IF Missing(text) THEN ValueError ELSE NoError
           [] type = AIC_TYPE_FILE -> ValueError
           [] OTHER -> Concat(type)

\* the exception AIMessage.__init__ raises, or NoError. The tokenizer is
\* len(encoding.encode(text)): it raises TypeError on None.
AIMessageError(role, text, type, url) ==
    IF role \notin ValidRoles THEN Concat(role)
    ELSE CASE type = AIC_TYPE_IMAGE_URL ->
                IF Missing(url) THEN ValueError
                ELSE IF text = NoneVal THEN TypeError ELSE NoError
           [] type = AIC_TYPE_INTERNAL ->
                IF Missing(text) THEN ValueError ELSE NoError
           [] type = AIC_TYPE_TEXT ->
                IF Missing(text) THEN ValueError ELSE NoError
           [] type = AIC_TYPE_FILE -> ValueError
           [] OTHER -> Concat(type)

\* AIMessage.__init__ completes without raising
AIMessageOk(role, text, type, url) ==
    AIMessageError(role, text, type, url) = NoError

\* AIMessageContent.set_content, the image URL it keeps: a remote URL or a
\* data URI as given, a readable local file as the data URI of its bytes, an
\* unreadable one as given (the content then holds an error text)
RemoteUrl      == "http://u"
ReadableFile   == "pic.jpg"
UnreadableFile == "nofile.jpg"
get_image_url(url) ==
    IF url = ReadableFile THEN "data:image/jpeg;base64,<pic.jpg>" ELSE url

\* AIMessageContent.get_content of a message: the parts sent to the model
get_content(m) ==
    CASE m.type = AIC_TYPE_IMAGE_URL ->
           << [ type |-> AIC_TYPE_IMAGE_URL,
                image_url |-> IF m.url = UnreadableFile
                              THEN "Error opening image file: nofile.jpg"
                              ELSE m.url ],
              [ type |-> AIC_TYPE_TEXT, text |-> m.text ] >>
      [] OTHER -> << [ type |-> m.type, text |-> m.text ] >>

\* AIMessage.get_message_payload
get_message_payload(m) == [ role |-> m.role, content |-> get_content(m) ]

\* the message AIMessage.__init__ builds (when AIMessageOk)
AIMessage(role, text, type, url, sticky) ==
    [ role   |-> role,
      type   |-> type,
      text   |-> text,
      url    |-> IF type = AIC_TYPE_IMAGE_URL THEN get_image_url(url) ELSE NoneVal,
      sticky |-> sticky,
      tokens |-> CASE type = AIC_TYPE_IMAGE_URL ->
                        num_tokens_from_picture(url) + num_tokens_from_string(text)
                   [] type = AIC_TYPE_INTERNAL  -> 0
                   [] OTHER                     -> num_tokens_from_string(text) ]

\* -------------------------------------------------------- AIConversation
\* the loop with a plausible slip: the tokens of a system message are added
\* to system_message_tokens ("+=" for "=")
RECURSIVE RecalcFrom_SystemAdded(_, _, _, _)
RecalcFrom_SystemAdded(msgs, maxMem, i, acc) ==
    IF i > Len(msgs) THEN acc
    ELSE
      LET m     == msgs[i]
          t     == m.tokens
          inMem == i > (Len(msgs) - maxMem)
      IN  RecalcFrom_SystemAdded(msgs, maxMem, i + 1,
            CASE m.role = AIC_ROLE_USER ->
                   [acc EXCEPT
                      !.user_tokens  = @ + t,
                      !.total_tokens = @ + t,
                      !.memory_user_tokens  = IF inMem THEN @ + t ELSE @,
                      !.memory_total_tokens = IF inMem THEN @ + t ELSE @,
                      !.biggest_user_msg_tokens = IF t > @ THEN t ELSE @]
              [] m.role = AIC_ROLE_ASSISTANT ->
                   [acc EXCEPT
                      !.assistant_tokens = @ + t,
                      !.total_tokens     = @ + t,
                      !.memory_assistant_tokens = IF inMem THEN @ + t ELSE @,
                      !.memory_total_tokens     = IF inMem THEN @ + t ELSE @,
                      !.biggest_assistant_msg_tokens = IF t > @ THEN t ELSE @]
              [] m.role \in {AIC_ROLE_SYSTEM, AIC_ROLE_DEVELOPER} ->
                   [acc EXCEPT
                      !.system_message_tokens = @ + t,
                      !.total_tokens          = @ + t,
                      !.memory_total_tokens   = @ + t]
              [] OTHER -> acc)

\* recalculate_tokens: the counters after a full rescan of msgs, as a record.
\* system_message_tokens is not reset, so it keeps its old value sysOld when
\* no message of msgs has role system or developer.
RECURSIVE RecalcFrom(_, _, _, _)
RecalcFrom(msgs, maxMem, i, acc) ==
    IF i > Len(msgs) THEN acc
    ELSE
      LET m     == msgs[i]
          t     == m.tokens
          inMem == i > (Len(msgs) - maxMem)
      IN  RecalcFrom(msgs, maxMem, i + 1,
            CASE m.role = AIC_ROLE_USER ->
                   [acc EXCEPT
                      !.user_tokens  = @ + t,
                      !.total_tokens = @ + t,
                      !.memory_user_tokens  = IF inMem THEN @ + t ELSE @,
                      !.memory_total_tokens = IF inMem THEN @ + t ELSE @,
                      !.biggest_user_msg_tokens = IF t > @ THEN t ELSE @]
              [] m.role = AIC_ROLE_ASSISTANT ->
                   [acc EXCEPT
                      !.assistant_tokens = @ + t,
                      !.total_tokens     = @ + t,
                      !.memory_assistant_tokens = IF inMem THEN @ + t ELSE @,
                      !.memory_total_tokens     = IF inMem THEN @ + t ELSE @,
                      !.biggest_assistant_msg_tokens = IF t > @ THEN t ELSE @]
              [] m.role \in {AIC_ROLE_SYSTEM, AIC_ROLE_DEVELOPER} ->
                   [acc EXCEPT
                      !.system_message_tokens = t,
                      !.total_tokens          = @ + t,
                      !.memory_total_tokens   = @ + t]
              [] OTHER -> acc)

Recalculate(msgs, maxMem, sysOld) ==
    RecalcFrom(msgs, maxMem, 1,
        [ system_message_tokens        |-> sysOld,
          user_tokens                  |-> 0,
          assistant_tokens             |-> 0,
          total_tokens                 |-> 0,
          biggest_user_msg_tokens      |-> 0,
          biggest_assistant_msg_tokens |-> 0,
          memory_user_tokens           |-> 0,
          memory_assistant_tokens      |-> 0,
          memory_total_tokens          |-> 0 ])

\* the stored counters, as a record of the same shape
Stored ==
    [ system_message_tokens        |-> system_message_tokens,
      user_tokens                  |-> user_tokens,
      assistant_tokens             |-> assistant_tokens,
      total_tokens                 |-> total_tokens,
      biggest_user_msg_tokens      |-> biggest_user_msg_tokens,
      biggest_assistant_msg_tokens |-> biggest_assistant_msg_tokens,
      memory_user_tokens           |-> memory_user_tokens,
      memory_assistant_tokens      |-> memory_assistant_tokens,
      memory_total_tokens          |-> memory_total_tokens ]

\* assignment of every counter from a record
SetCounters(c) ==
    /\ system_message_tokens'        = c.system_message_tokens
    /\ user_tokens'                  = c.user_tokens
    /\ assistant_tokens'             = c.assistant_tokens
    /\ total_tokens'                 = c.total_tokens
    /\ biggest_user_msg_tokens'      = c.biggest_user_msg_tokens
    /\ biggest_assistant_msg_tokens' = c.biggest_assistant_msg_tokens
    /\ memory_user_tokens'           = c.memory_user_tokens
    /\ memory_assistant_tokens'      = c.memory_assistant_tokens
    /\ memory_total_tokens'          = c.memory_total_tokens

\* a call that raises before it changes anything
Raise(e) ==
    /\ raised' = e
    /\ UNCHANGED << messages, max_memory_messages, counters >>

\* AIConversation.__init__(system_message, max_memory)
the_system_msg(system_message) ==
    IF system_message # NoneVal /\ system_message # ""
    THEN system_message ELSE AIC_DEFAULT_SYSTEM_PROMPT

Construct(system_message, max_memory) ==
    LET m0 == AIMessage(AIC_ROLE_SYSTEM, the_system_msg(system_message),
                        AIC_TYPE_TEXT, NoneVal, TRUE)
    IN  /\ messages = << m0 >>
        /\ max_memory_messages = max_memory
        /\ total_tokens = m0.tokens
        /\ system_message_tokens = m0.tokens
        /\ memory_total_tokens = m0.tokens
        /\ user_tokens = 0
        /\ assistant_tokens = 0
        /\ biggest_user_msg_tokens = 0
        /\ biggest_assistant_msg_tokens = 0
        /\ memory_user_tokens = 0
        /\ memory_assistant_tokens = 0
        /\ raised = NoError

\* the chain with a plausible slip: the evicted message's tokens are not
\* taken from the memory counter of the role (lines 464 and 473 missing)
AddCountersIn_RoleMemoryNotEvicted(c, role, t, rem) ==
    CASE role = AIC_ROLE_USER ->
           [c EXCEPT
              !.user_tokens  = @ + t - rem,
              !.total_tokens = @ + t,
              !.memory_user_tokens  = @ + t,
              !.memory_total_tokens = @ + t - rem,
              !.biggest_user_msg_tokens = IF t > @ THEN t ELSE @]
      [] role = AIC_ROLE_ASSISTANT ->
           [c EXCEPT
              !.assistant_tokens = @ + t - rem,
              !.total_tokens     = @ + t,
              !.memory_assistant_tokens = @ + t,
              !.memory_total_tokens     = @ + t - rem,
              !.biggest_assistant_msg_tokens = IF t > @ THEN t ELSE @]
      [] role = AIC_ROLE_SYSTEM ->
           [c EXCEPT
              !.system_message_tokens = t,
              !.total_tokens          = @ + t - rem,
              !.memory_total_tokens   = @ + t - rem]
      [] OTHER -> c

\* the counters after add_message has stored new_msg, l_tokenstoremove = rem,
\* from the counters c before the call
AddCountersIn(c, role, t, rem) ==
    CASE role = AIC_ROLE_USER ->
           [c EXCEPT
              !.user_tokens  = @ + t - rem,
              !.total_tokens = @ + t,
              !.memory_user_tokens  = @ + t - rem,
              !.memory_total_tokens = @ + t - rem,
              !.biggest_user_msg_tokens = IF t > @ THEN t ELSE @]
      [] role = AIC_ROLE_ASSISTANT ->
           [c EXCEPT
              !.assistant_tokens = @ + t - rem,
              !.total_tokens     = @ + t,
              !.memory_assistant_tokens = @ + t - rem,
              !.memory_total_tokens     = @ + t - rem,
              !.biggest_assistant_msg_tokens = IF t > @ THEN t ELSE @]
      [] role = AIC_ROLE_SYSTEM ->
           [c EXCEPT
              !.system_message_tokens = t,
              !.total_tokens          = @ + t - rem,
              !.memory_total_tokens   = @ + t - rem]
      [] OTHER -> c

AddCounters(role, t, rem) == AddCountersIn(Stored, role, t, rem)

\* l_tokenstoremove of add_message, on the list msgs
TokensToRemoveIn(msgs, maxMem, role) ==
    IF role \in {AIC_ROLE_SYSTEM, AIC_ROLE_DEVELOPER}
    THEN IF Len(msgs) >= 1 THEN msgs[1].tokens ELSE 0
    ELSE IF Len(msgs) > maxMem + 2 /\ role # AIC_ROLE_INTERNAL
         THEN PyAt(msgs, -maxMem - 1).tokens
         ELSE 0

TokensToRemove(role) == TokensToRemoveIn(messages, max_memory_messages, role)

\* the list update with a plausible slip: only user and assistant messages
\* are appended
AddToListIn_InternalNotAppended(msgs, role, new_msg) ==
    IF role \in {AIC_ROLE_SYSTEM, AIC_ROLE_DEVELOPER} /\ Len(msgs) >= 1
    THEN [msgs EXCEPT ![1] = new_msg]
    ELSE IF role = AIC_ROLE_INTERNAL THEN msgs ELSE Append(msgs, new_msg)

\* the message list after add_message has stored new_msg, from the list msgs
AddToListIn(msgs, role, new_msg) ==
    IF role \in {AIC_ROLE_SYSTEM, AIC_ROLE_DEVELOPER} /\ Len(msgs) >= 1
    THEN [msgs EXCEPT ![1] = new_msg]
    ELSE Append(msgs, new_msg)

AddToList(role, new_msg) == AddToListIn(messages, role, new_msg)

\* add_message as a function: from the list msgs and the counters c to the
\* list and the counters it leaves and the exception it raises
add_message(msgs, c, maxMem, role, text, type, url, sticky) ==
    IF ~AIMessageOk(role, text, type, url)
    THEN [ messages |-> msgs, counters |-> c,
           raised |-> AIMessageError(role, text, type, url) ]
    ELSE LET new_msg == AIMessage(role, text, type, url, sticky)
         IN  [ messages |-> AddToListIn(msgs, role, new_msg),
               counters |-> AddCountersIn(c, role, new_msg.tokens,
                                          TokensToRemoveIn(msgs, maxMem, role)),
               raised   |-> NoError ]

\* add_message(msg_role, msg_text, msg_type, image_url, is_sticky)
AddMessage(role, text, type, url, sticky) ==
    IF ~AIMessageOk(role, text, type, url)
    THEN Raise(AIMessageError(role, text, type, url))
    ELSE LET new_msg == AIMessage(role, text, type, url, sticky)
         IN  /\ messages' = AddToList(role, new_msg)
             /\ SetCounters(AddCounters(role, new_msg.tokens, TokensToRemove(role)))
             /\ raised' = NoError
             /\ UNCHANGED max_memory_messages

\* ------------------------------------------------------------ persistence
KeyError          == "KeyError"
JSONDecodeError   == "JSONDecodeError"
FileNotFoundError == "FileNotFoundError"

\* to_dict with a plausible slip: the sticky flag is not written
to_dict_StickyDropped(m) ==
    [ role              |-> m.role,
      msg_type          |-> m.type,
      content_text      |-> m.text,
      content_image_url |-> m.url,
      sticky            |-> FALSE ]

\* AIMessage.to_dict
to_dict(m) ==
    [ role              |-> m.role,
      msg_type          |-> m.type,
      content_text      |-> m.text,
      content_image_url |-> m.url,
      sticky            |-> m.sticky ]

\* AIMessage.from_dict(d): cls(role, msg_type, content_text, ...) against the
\* parameters (role, content_text, msg_type, ...) of __init__, so msg_type
\* arrives as the text and content_text as the type
from_dict(d) ==
    LET role == d.role
        content_text == d.msg_type
        msg_type == d.content_text
        e == AIMessageError(role, content_text, msg_type, d.content_image_url)
    IN  IF e # NoError
        THEN [ raised |-> e ]
        ELSE [ raised  |-> NoError,
               message |-> AIMessage(role, content_text, msg_type,
                                     d.content_image_url, d.sticky) ]

\* the fields a record of a message has
RecordFields == { "role", "msg_type", "content_text", "content_image_url", "sticky" }

\* A line of the file: whether json.loads parses it, the keys of the object
\* it then yields and their values.
\* json.dumps(message.to_dict()) + newline
json_dumps(d) == [ parses |-> TRUE, keys |-> RecordFields, value |-> d ]

\* save_conversation writes these lines
SavedLines(msgs) == [ i \in 1..Len(msgs) |-> json_dumps(to_dict(msgs[i])) ]

\* the counters __restart_internal leaves
ZeroCounters ==
    [ system_message_tokens        |-> 0,
      user_tokens                  |-> 0,
      assistant_tokens             |-> 0,
      total_tokens                 |-> 0,
      biggest_user_msg_tokens      |-> 0,
      biggest_assistant_msg_tokens |-> 0,
      memory_user_tokens           |-> 0,
      memory_assistant_tokens      |-> 0,
      memory_total_tokens          |-> 0 ]

\* the loop of load_conversation from line i on: json.loads is outside the
\* try block, message[key] inside it; only ValueError is caught
RECURSIVE LoadLines(_, _, _, _, _)
LoadLines(lines, i, msgs, c, maxMem) ==
    IF i > Len(lines) THEN [ messages |-> msgs, counters |-> c, raised |-> NoError ]
    ELSE LET line == lines[i]
         IN  IF ~line.parses
             THEN [ messages |-> msgs, counters |-> c, raised |-> JSONDecodeError ]
             ELSE IF ~(RecordFields \subseteq line.keys)
             THEN [ messages |-> msgs, counters |-> c, raised |-> KeyError ]
             ELSE LET d == line.value
                      r == add_message(msgs, c, maxMem, d.role, d.content_text,
                                       d.msg_type, d.content_image_url, d.sticky)
                  IN  IF r.raised = NoError \/ r.raised = ValueError
                      THEN LoadLines(lines, i + 1, r.messages, r.counters, maxMem)
                      ELSE r

\* load_conversation(full_path_name)
LoadConversation ==
    LET r == IF file.exists
             THEN LoadLines(file.lines, 1, << >>, ZeroCounters, max_memory_messages)
             ELSE [ messages |-> << >>, counters |-> ZeroCounters,
                    raised |-> FileNotFoundError ]
    IN  /\ messages' = r.messages
        /\ SetCounters(r.counters)
        /\ raised' = r.raised
        /\ UNCHANGED << max_memory_messages, file >>

\* save_conversation(full_path_name)
SaveConversation ==
    /\ file' = [ exists |-> TRUE, lines |-> SavedLines(messages) ]
    /\ raised' = NoError
    /\ UNCHANGED << messages, max_memory_messages, counters >>

\* new_topic()
NewTopic ==
    AddMessage(AIC_ROLE_INTERNAL, AIC_COMMAND_NEWTOPIC, AIC_TYPE_INTERNAL, NoneVal, FALSE)

\* change_system_message(new_system_message)
ChangeSystemMessage(text) ==
    IF ~AIMessageOk(AIC_ROLE_SYSTEM, text, AIC_TYPE_TEXT, NoneVal)
    THEN Raise(ValueError)
    ELSE LET m0 == AIMessage(AIC_ROLE_SYSTEM, text, AIC_TYPE_TEXT, NoneVal, TRUE)
         IN  /\ messages' = IF Len(messages) = 0 THEN << m0 >>
                            ELSE [messages EXCEPT ![1] = m0]
             /\ raised' = NoError
             /\ UNCHANGED << max_memory_messages, counters >>

\* set_max_memory_messages(max_memory)
SetMaxMemoryMessages(max_memory) ==
    IF max_memory <= 0
    THEN Raise(ValueError)
    ELSE /\ max_memory_messages' = max_memory
         /\ raised' = NoError
         /\ UNCHANGED << messages, counters >>

\* count_non_sticky_messages(), over msgs
count_non_sticky_messages(msgs) ==
    Cardinality({ i \in 1..Len(msgs) : ~msgs[i].sticky })

\* remove_messages, first loop of the remove_sticky=False branch:
\* for i in range(len - 1, 0, -1), written with 1-based positions pos = i + 1;
\* deletes non-sticky messages until target of them are gone
RECURSIVE RemoveLoop1(_, _, _, _)
RemoveLoop1(msgs, pos, removed_count, target) ==
    IF pos < 2 THEN msgs
    ELSE IF ~msgs[pos].sticky
         THEN IF removed_count + 1 = target
              THEN DelAt(msgs, pos)
              ELSE RemoveLoop1(DelAt(msgs, pos), pos - 1, removed_count + 1, target)
         ELSE RemoveLoop1(msgs, pos - 1, removed_count, target)

\* remove_messages, second loop of the remove_sticky=False branch:
\* for _ in range(left): drops the last message while it is not sticky;
\* messages[-1] on an empty list raises IndexError
RECURSIVE RemoveLoop2(_, _)
RemoveLoop2(msgs, left) ==
    IF left <= 0 THEN [msgs |-> msgs, raised |-> NoError]
    ELSE IF Len(msgs) = 0 THEN [msgs |-> msgs, raised |-> IndexError]
    ELSE IF ~msgs[Len(msgs)].sticky
         THEN RemoveLoop2(DropLast(msgs, 1), left - 1)
         ELSE [msgs |-> msgs, raised |-> NoError]

\* the removal with a plausible slip: the flag is not looked at
RemoveResult_IgnoresFlag(msgs_to_remove, remove_sticky) ==
    LET target == Min(msgs_to_remove, count_non_sticky_messages(messages))
    IN  RemoveLoop2(RemoveLoop1(messages, Len(messages), 0, target), target)

\* the list remove_messages leaves, and the exception it raises, when
\* msgs_to_remove > 0
RemoveResult(msgs_to_remove, remove_sticky) ==
    IF remove_sticky
    THEN [msgs |-> DropLast(messages, msgs_to_remove), raised |-> NoError]
    ELSE LET target == Min(msgs_to_remove, count_non_sticky_messages(messages))
         IN  RemoveLoop2(RemoveLoop1(messages, Len(messages), 0, target), target)

\* remove_messages with a plausible slip: the check of a negative count is
\* missing, and min() and the test "> 0" let a negative count through
RemoveMessages_NoNegativeCheck(remove_n_messages, remove_sticky) ==
    LET msgs_to_remove == Min(remove_n_messages, Len(messages) - 1)
    IN  IF msgs_to_remove > 0
        THEN LET r == RemoveResult(msgs_to_remove, remove_sticky)
             IN  /\ messages' = r.msgs
                 /\ raised' = r.raised
                 /\ IF r.raised = NoError
                    THEN SetCounters(Recalculate(r.msgs, max_memory_messages,
                                                 system_message_tokens))
                    ELSE UNCHANGED counters
                 /\ UNCHANGED max_memory_messages
        ELSE /\ raised' = NoError
             /\ UNCHANGED << messages, max_memory_messages, counters >>

\* remove_messages(remove_n_messages, remove_sticky)
RemoveMessages(remove_n_messages, remove_sticky) ==
    IF remove_n_messages < 0
    THEN Raise(ValueError)
    ELSE LET msgs_to_remove == Min(remove_n_messages, Len(messages) - 1)
         IN  IF msgs_to_remove > 0
             THEN LET r == RemoveResult(msgs_to_remove, remove_sticky)
                  IN  /\ messages' = r.msgs
                      /\ raised' = r.raised
                      /\ IF r.raised = NoError
                         THEN SetCounters(Recalculate(r.msgs, max_memory_messages,
                                                      system_message_tokens))
                         ELSE UNCHANGED counters
                      /\ UNCHANGED max_memory_messages
             ELSE /\ raised' = NoError
                  /\ UNCHANGED << messages, max_memory_messages, counters >>

\* remove_non_sticky_messages(remove_n_messages)
RemoveNonStickyMessages(remove_n_messages) ==
    IF remove_n_messages < 0
    THEN Raise(ValueError)
    ELSE RemoveMessages(remove_n_messages, FALSE)

\* restart()
Restart ==
    IF Len(messages) = 0
    THEN Raise(IndexError)
    ELSE /\ messages' = << messages[1] >>
         /\ raised' = NoError
         /\ UNCHANGED << max_memory_messages, counters >>

\* recalculate_tokens()
RecalculateTokens ==
    /\ SetCounters(Recalculate(messages, max_memory_messages, system_message_tokens))
    /\ raised' = NoError
    /\ UNCHANGED << messages, max_memory_messages >>

\* set_last_message_stickiness(sticky)
SetLastMessageStickiness(sticky) ==
    IF Len(messages) = 0
    THEN Raise(IndexError)
    ELSE /\ messages' = [messages EXCEPT ![Len(messages)].sticky = sticky]
         /\ raised' = NoError
         /\ UNCHANGED << max_memory_messages, counters >>

\* set_nth_message_stickiness(nth, sticky)
SetNthMessageStickiness(nth, sticky) ==
    /\ messages' = IF nth >= 1 /\ Len(messages) > nth
                   THEN [messages EXCEPT ![nth + 1].sticky = sticky]
                   ELSE messages
    /\ raised' = NoError
    /\ UNCHANGED << max_memory_messages, counters >>

\* set_last_TWO_messages_stickiness(sticky)
SetLastTwoMessagesStickiness(sticky) ==
    LET current_len == Len(messages)
        one == IF current_len >= 1
               THEN [messages EXCEPT ![current_len].sticky = sticky]
               ELSE messages
        two == IF current_len >= 2
               THEN [one EXCEPT ![current_len - 1].sticky = sticky]
               ELSE one
    IN  /\ messages' = two
        /\ raised' = NoError
        /\ UNCHANGED << max_memory_messages, counters >>

\* ---------------------------------------------------- get_memory_messages
\* The walk of get_memory_messages over reversed(msgs), by position: pos is
\* the 1-based position of the message looked at, temp the positions collected
\* so far (newest first). Returns the collected positions and new_topic_found.
\* the walk with a plausible slip: it stops at the limit ("break" for
\* "continue"), so no older sticky message is collected
RECURSIVE MemoryWalk_StopsAtLimit(_, _, _, _)
MemoryWalk_StopsAtLimit(msgs, maxMem, pos, temp) ==
    IF pos < 1 THEN [temp |-> temp, new_topic_found |-> FALSE]
    ELSE IF Len(temp) >= maxMem
         THEN [temp |-> temp, new_topic_found |-> FALSE]
         ELSE IF msgs[pos].role = AIC_ROLE_INTERNAL
                 /\ msgs[pos].text = AIC_COMMAND_NEWTOPIC
              THEN [temp |-> temp, new_topic_found |-> TRUE]
              ELSE MemoryWalk_StopsAtLimit(msgs, maxMem, pos - 1, Append(temp, pos))

\* the walk with a plausible slip: the limit is tested with ">" for ">="
RECURSIVE MemoryWalk_LimitOffByOne(_, _, _, _)
MemoryWalk_LimitOffByOne(msgs, maxMem, pos, temp) ==
    IF pos < 1 THEN [temp |-> temp, new_topic_found |-> FALSE]
    ELSE IF Len(temp) > maxMem
         THEN MemoryWalk_LimitOffByOne(msgs, maxMem, pos - 1,
                         IF msgs[pos].sticky THEN Append(temp, pos) ELSE temp)
         ELSE IF msgs[pos].role = AIC_ROLE_INTERNAL
                 /\ msgs[pos].text = AIC_COMMAND_NEWTOPIC
              THEN [temp |-> temp, new_topic_found |-> TRUE]
              ELSE MemoryWalk_LimitOffByOne(msgs, maxMem, pos - 1, Append(temp, pos))

RECURSIVE MemoryWalk(_, _, _, _)
MemoryWalk(msgs, maxMem, pos, temp) ==
    IF pos < 1 THEN [temp |-> temp, new_topic_found |-> FALSE]
    ELSE IF Len(temp) >= maxMem
         THEN MemoryWalk(msgs, maxMem, pos - 1,
                         IF msgs[pos].sticky THEN Append(temp, pos) ELSE temp)
         ELSE IF msgs[pos].role = AIC_ROLE_INTERNAL
                 /\ msgs[pos].text = AIC_COMMAND_NEWTOPIC
              THEN [temp |-> temp, new_topic_found |-> TRUE]
              ELSE MemoryWalk(msgs, maxMem, pos - 1, Append(temp, pos))

Reverse(seq) == [ i \in 1..Len(seq) |-> seq[Len(seq) + 1 - i] ]

\* the result with a plausible slip: the collected list is not reversed
MemoryPositions_NotReversed(msgs, maxMem) ==
    LET w == MemoryWalk(msgs, maxMem, Len(msgs), << >>)
    IN  IF w.new_topic_found THEN Append(w.temp, 1) ELSE w.temp

\* the result with a plausible slip: the message at index 0 is inserted
\* whether or not a topic marker stopped the walk
MemoryPositions_HeadAlwaysInserted(msgs, maxMem) ==
    LET w == MemoryWalk(msgs, maxMem, Len(msgs), << >>)
    IN  Reverse(Append(w.temp, 1))

\* positions (1-based, in msgs) of the messages get_memory_messages returns,
\* in the order it returns them
MemoryPositions(msgs, maxMem) ==
    LET w == MemoryWalk(msgs, maxMem, Len(msgs), << >>)
    IN  Reverse(IF w.new_topic_found THEN Append(w.temp, 1) ELSE w.temp)

\* the list with a plausible slip: the window size is the one read before the
\* last call (a size kept next to the unused __memory_messages of line 299)
get_memory_messages_StaleSize ==
    LET p == MemoryPositions(messages, IF last_call.op = ""
                                       THEN max_memory_messages
                                       ELSE last_call.max_memory)
    IN  [ i \in 1..Len(p) |-> messages[p[i]] ]

\* the list get_memory_messages() returns
get_memory_messages ==
    LET p == MemoryPositions(messages, max_memory_messages)
    IN  [ i \in 1..Len(p) |-> messages[p[i]] ]

\* a call of get_memory_messages(): it assigns no attribute of the conversation
GetMemoryMessages ==
    /\ Len(get_memory_messages) >= 0
    /\ raised' = NoError
    /\ UNCHANGED << messages, max_memory_messages, counters >>

\* ---------------------------------------------------------------- payloads
\* get_conversation_python_memory_payload()
get_conversation_python_memory_payload ==
    [ i \in 1..Len(get_memory_messages) |-> get_message_payload(get_memory_messages[i]) ]

\* get_conversation_python_history_payload()
get_conversation_python_history_payload ==
    [ i \in 1..Len(messages) |-> get_message_payload(messages[i]) ]

\* get_conversation_payload(): its "messages" entry, the messages themselves
get_conversation_payload == get_memory_messages

\* get_conversation_history_payload(): its "messages" entry
get_conversation_history_payload ==
    [ i \in 1..Len(messages) |-> get_message_payload(messages[i]) ]

\* the roles of the entries of a payload
PayloadRoles(payload) == { payload[i].role : i \in 1..Len(payload) }

\* a call of a payload getter: it assigns no attribute of the conversation
GetPayload(payload) ==
    /\ Len(payload) >= 0
    /\ raised' = NoError
    /\ UNCHANGED << messages, max_memory_messages, counters >>

\* ------------------------------------------------------ get_messages_count
\* The walk of get_messages_count over reversed(msgs): pos is the 1-based
\* position of the message looked at, result the count so far. Returns the
\* count and system_message_reached.
RECURSIVE MessagesCountWalk(_, _, _, _, _, _, _)
MessagesCountWalk(msgs, maxMem, pos, result, memory_only, count_sticky, count_internal) ==
    IF pos < 1 THEN [result |-> result, system_message_reached |-> FALSE]
    ELSE IF memory_only /\ result >= maxMem
         THEN [result |-> result, system_message_reached |-> FALSE]
         ELSE IF msgs[pos].type = AIC_TYPE_INTERNAL /\ ~count_internal
              THEN MessagesCountWalk(msgs, maxMem, pos - 1, result, memory_only,
                                     count_sticky, count_internal)
              ELSE IF msgs[pos].sticky /\ ~count_sticky
                   THEN MessagesCountWalk(msgs, maxMem, pos - 1, result,
                                          memory_only, count_sticky, count_internal)
                   ELSE IF msgs[pos].role \in { AIC_ROLE_SYSTEM, AIC_ROLE_DEVELOPER }
                        THEN [result |-> result + 1, system_message_reached |-> TRUE]
                        ELSE MessagesCountWalk(msgs, maxMem, pos - 1, result + 1,
                                               memory_only, count_sticky,
                                               count_internal)

\* the number get_messages_count(memory_only, count_sticky, count_internal)
\* returns
get_messages_count(memory_only, count_sticky, count_internal) ==
    LET w == MessagesCountWalk(messages, max_memory_messages, Len(messages), 0,
                               memory_only, count_sticky, count_internal)
    IN  IF w.system_message_reached THEN w.result ELSE w.result + 1

\* get_memory_messages_no()
get_memory_messages_no == Min(Len(messages), max_memory_messages + 1)

\* a call of get_messages_count: it assigns no attribute of the conversation
GetMessagesCount(memory_only, count_sticky, count_internal) ==
    /\ get_messages_count(memory_only, count_sticky, count_internal) >= 0
    /\ raised' = NoError
    /\ UNCHANGED << messages, max_memory_messages, counters >>

\* ------------------------------------------------------------ the machine
\* arguments the callers pass
SystemMessages == { NoneVal }                   \* constructor's system_message
MemorySizes    == 0..MaxMemory                  \* constructor's max_memory (not validated)
AppendInputs   == { << AIC_ROLE_USER, "a" >>, << AIC_ROLE_ASSISTANT, "bb" >> }
HeadTexts      == { "a" }                       \* text of a new system message

\* every counter is within the range the model explores
InBounds ==
    \A k \in 1..Len(counters) : counters[k] \in (0 - MaxTokens)..MaxTokens

Init ==
    \E system_message \in SystemMessages, max_memory \in MemorySizes :
        /\ Construct(system_message, max_memory)
        /\ file = NoFile
        /\ last_call = NoCall
        /\ RenamerIdle

AddUserOrAssistant ==
    /\ Len(messages) < MaxLen
    /\ \E in \in AppendInputs, sticky \in BOOLEAN :
          AddMessage(in[1], in[2], AIC_TYPE_TEXT, NoneVal, sticky)
    /\ InBounds'
    /\ NotRecorded

AddSystem ==
    /\ \E text \in HeadTexts, sticky \in BOOLEAN :
          AddMessage(AIC_ROLE_SYSTEM, text, AIC_TYPE_TEXT, NoneVal, sticky)
    /\ InBounds'
    /\ NotRecorded

AddDeveloper ==
    /\ \E text \in HeadTexts, sticky \in BOOLEAN :
          AddMessage(AIC_ROLE_DEVELOPER, text, AIC_TYPE_TEXT, NoneVal, sticky)
    /\ InBounds'
    /\ NotRecorded

CallNewTopic ==
    /\ Len(messages) < MaxLen
    /\ NewTopic
    /\ NotRecorded

CallChangeSystemMessage ==
    /\ \E text \in HeadTexts : ChangeSystemMessage(text)
    /\ NotRecorded

CallSetMaxMemoryMessages ==
    /\ \E max_memory \in 1..MaxMemory : SetMaxMemoryMessages(max_memory)
    /\ NotRecorded

CallRemoveMessages ==
    /\ \E n \in 0..(MaxLen - 1), remove_sticky \in BOOLEAN :
            RemoveMessages(n, remove_sticky)
    /\ NotRecorded

CallRemoveNonStickyMessages ==
    /\ \E n \in 0..(MaxLen - 1) : RemoveNonStickyMessages(n)
    /\ NotRecorded

CallSetLastMessageStickiness ==
    /\ \E sticky \in BOOLEAN : SetLastMessageStickiness(sticky)
    /\ NotRecorded

CallSetNthMessageStickiness ==
    /\ \E nth \in 0..(MaxLen - 1), sticky \in BOOLEAN :
            SetNthMessageStickiness(nth, sticky)
    /\ NotRecorded

CallSetLastTwoMessagesStickiness ==
    /\ \E sticky \in BOOLEAN : SetLastTwoMessagesStickiness(sticky)
    /\ NotRecorded

CallRestart ==
    /\ Restart
    /\ NotRecorded

CallRecalculateTokens ==
    /\ RecalculateTokens
    /\ NotRecorded

CallGetMemoryMessages ==
    /\ GetMemoryMessages
    /\ NotRecorded

Next ==
    \/ AddUserOrAssistant
    \/ AddSystem
    \/ AddDeveloper
    \/ CallNewTopic
    \/ CallChangeSystemMessage
    \/ CallSetMaxMemoryMessages
    \/ CallRemoveMessages
    \/ CallRemoveNonStickyMessages
    \/ CallRestart
    \/ CallRecalculateTokens
    \/ CallSetLastMessageStickiness
    \/ CallSetNthMessageStickiness
    \/ CallSetLastTwoMessagesStickiness
    \/ CallGetMemoryMessages

Spec == Init /\ [][Next]_vars

\* A fresh conversation that only receives add_message calls with role user,
\* assistant or system.
AddOnlyNext ==
    \/ AddUserOrAssistant
    \/ AddSystem

AddOnlySpec == Init /\ [][AddOnlyNext]_vars

\* ------------------------------------------------- histories, for the getters
\* The getters are functions of the message list and max_memory_messages.
\* HistorySpec starts from any list the operations above can leave (any valid
\* message at index 0 once remove_messages has emptied the list, no system or
\* developer message behind it), with the counters recalculate_tokens()
\* leaves, and applies the getters.
BodyMessages ==
    { AIMessage(in[1], in[2], AIC_TYPE_TEXT, NoneVal, sticky) :
          in \in AppendInputs, sticky \in BOOLEAN }
    \cup { AIMessage(AIC_ROLE_INTERNAL, AIC_COMMAND_NEWTOPIC, AIC_TYPE_INTERNAL,
                     NoneVal, sticky) : sticky \in BOOLEAN }

HeadMessages ==
    { AIMessage(AIC_ROLE_SYSTEM, text, AIC_TYPE_TEXT, NoneVal, sticky) :
          text \in HeadTexts \cup { AIC_DEFAULT_SYSTEM_PROMPT }, sticky \in BOOLEAN }
    \cup { AIMessage(AIC_ROLE_DEVELOPER, text, AIC_TYPE_TEXT, NoneVal, sticky) :
          text \in HeadTexts, sticky \in BOOLEAN }

\* the message lists of length n
Histories(n) ==
    IF n = 0 THEN { << >> }
    ELSE { << h >> \o t : h \in HeadMessages \cup BodyMessages,
                          t \in [1..(n - 1) -> BodyMessages] }

\* a conversation holding msgs, with the counters recalculate_tokens() leaves
StartFrom(msgs, max_memory) ==
    LET c == Recalculate(msgs, max_memory,
                         num_tokens_from_string(AIC_DEFAULT_SYSTEM_PROMPT))
    IN  /\ messages = msgs
        /\ max_memory_messages = max_memory
        /\ system_message_tokens        = c.system_message_tokens
        /\ user_tokens                  = c.user_tokens
        /\ assistant_tokens             = c.assistant_tokens
        /\ total_tokens                 = c.total_tokens
        /\ biggest_user_msg_tokens      = c.biggest_user_msg_tokens
        /\ biggest_assistant_msg_tokens = c.biggest_assistant_msg_tokens
        /\ memory_user_tokens           = c.memory_user_tokens
        /\ memory_assistant_tokens      = c.memory_assistant_tokens
        /\ memory_total_tokens          = c.memory_total_tokens
        /\ raised = NoError

HistoryInit ==
    \E n \in 0..MaxHistory, max_memory \in 0..MaxWindow :
      \E msgs \in Histories(n) :
        /\ StartFrom(msgs, max_memory)
        /\ file = NoFile
        /\ last_call = NoCall
        /\ RenamerIdle

CallGetConversationPayload ==
    /\ GetPayload(get_conversation_payload)
    /\ NotRecorded

CallGetConversationPythonMemoryPayload ==
    /\ GetPayload(get_conversation_python_memory_payload)
    /\ NotRecorded

CallGetConversationHistoryPayload ==
    /\ GetPayload(get_conversation_history_payload)
    /\ NotRecorded

CallGetConversationPythonHistoryPayload ==
    /\ GetPayload(get_conversation_python_history_payload)
    /\ NotRecorded

CallGetMessagesCount ==
    /\ \E memory_only \in BOOLEAN, count_sticky \in BOOLEAN,
          count_internal \in BOOLEAN :
            GetMessagesCount(memory_only, count_sticky, count_internal)
    /\ NotRecorded

HistoryNext ==
    \/ CallGetMemoryMessages
    \/ CallGetMessagesCount
    \/ CallGetConversationPayload
    \/ CallGetConversationPythonMemoryPayload
    \/ CallGetConversationHistoryPayload
    \/ CallGetConversationPythonHistoryPayload

HistorySpec == HistoryInit /\ [][HistoryNext]_vars

\* ------------------------------------------------- one call on a history
\* CallSpec makes one call, with any arguments, on any history, and records
\* the call and the conversation it was made on in last_call.
Roles == ValidRoles \cup { AIC_ROLE_UNKNOWN }
Texts == { "a", "", NoneVal }
Types == { AIC_TYPE_TEXT, AIC_TYPE_IMAGE_URL, AIC_TYPE_FILE, AIC_TYPE_UNKNOWN,
           AIC_TYPE_INTERNAL }
Urls  == { NoneVal, "", RemoteUrl, ReadableFile }

RecordResult(op, args, result) ==
    /\ last_call' = [ op |-> op, args |-> args, messages |-> messages,
                      counters |-> counters, max_memory |-> max_memory_messages,
                      result |-> result ]
    /\ UNCHANGED << file, renamer >>

Record(op, args) == RecordResult(op, args, << >>)

CallInit ==
    \E n \in 0..MaxCallLen, max_memory \in 0..MaxWindow :
      \E msgs \in Histories(n) :
        /\ StartFrom(msgs, max_memory)
        /\ file = NoFile
        /\ last_call = NoCall
        /\ RenamerIdle

OneAddMessage ==
    /\ last_call = NoCall
    /\ Len(messages) < MaxCallLen
    /\ \E role \in Roles, text \in Texts, type \in Types, url \in Urls,
          sticky \in BOOLEAN :
            /\ AddMessage(role, text, type, url, sticky)
            /\ Record("add_message", << role, text, type, url, sticky >>)

OneNewTopic ==
    /\ last_call = NoCall
    /\ NewTopic
    /\ Record("new_topic", << >>)

OneRemoveMessages ==
    /\ last_call = NoCall
    /\ \E n \in -1..MaxCallLen, remove_sticky \in BOOLEAN :
          /\ RemoveMessages(n, remove_sticky)
          /\ Record("remove_messages", << n, remove_sticky >>)

OneRemoveNonStickyMessages ==
    /\ last_call = NoCall
    /\ \E n \in -1..MaxCallLen :
          /\ RemoveNonStickyMessages(n)
          /\ Record("remove_non_sticky_messages", << n >>)

\* recalculate_tokens(), as the first call or after any other call, and once
\* more after itself; args records the call made before it
OneRecalculateTokens ==
    /\ ~( /\ last_call.op = "recalculate_tokens"
          /\ last_call.args[1] = "recalculate_tokens" )
    /\ RecalculateTokens
    /\ Record("recalculate_tokens", << last_call.op >>)

CallNext ==
    \/ OneAddMessage
    \/ OneNewTopic
    \/ OneRemoveMessages
    \/ OneRemoveNonStickyMessages
    \/ OneRecalculateTokens

CallSpec == CallInit /\ [][CallNext]_vars

\* ------------------------------------------- the window after the setters
\* WindowSpec calls set_max_memory_messages, the stickiness setters and
\* get_memory_messages in any order on any history, and records each call,
\* the conversation it was made on and the list a get_memory_messages call
\* returned.
OneSetMaxMemoryMessages ==
    \E max_memory \in 0..MaxWindow :
        /\ SetMaxMemoryMessages(max_memory)
        /\ Record("set_max_memory_messages", << max_memory >>)

OneSetLastMessageStickiness ==
    \E sticky \in BOOLEAN :
        /\ SetLastMessageStickiness(sticky)
        /\ Record("set_last_message_stickiness", << sticky >>)

OneSetNthMessageStickiness ==
    \E nth \in 0..MaxCallLen, sticky \in BOOLEAN :
        /\ SetNthMessageStickiness(nth, sticky)
        /\ Record("set_nth_message_stickiness", << nth, sticky >>)

OneSetLastTwoMessagesStickiness ==
    \E sticky \in BOOLEAN :
        /\ SetLastTwoMessagesStickiness(sticky)
        /\ Record("set_last_TWO_messages_stickiness", << sticky >>)

\* get_memory_messages(); args records the call made before it
OneGetMemoryMessages ==
    /\ GetMemoryMessages
    /\ RecordResult("get_memory_messages", << last_call.op >>, get_memory_messages)

WindowNext ==
    \/ OneSetMaxMemoryMessages
    \/ OneSetLastMessageStickiness
    \/ OneSetNthMessageStickiness
    \/ OneSetLastTwoMessagesStickiness
    \/ OneGetMemoryMessages

WindowSpec == CallInit /\ [][WindowNext]_vars

\* ------------------------------------------------- one append on a history
\* AppendSpec appends one user or assistant message to any history of up to
\* MaxHistory messages, long enough for the eviction adjustment of
\* add_message (len > max_memory_messages + 2) with a positive window.
OneAppend ==
    /\ last_call = NoCall
    /\ \E in \in AppendInputs, sticky \in BOOLEAN :
          /\ AddMessage(in[1], in[2], AIC_TYPE_TEXT, NoneVal, sticky)
          /\ Record("add_message", << in[1], in[2], AIC_TYPE_TEXT, NoneVal, sticky >>)

AppendSpec == HistoryInit /\ [][OneAppend]_vars

\* ------------------------------------------------------ save, then load
\* PersistSpec starts either from a conversation built by the constructor,
\* add_message, new_topic and the stickiness setters, or from a fresh
\* conversation next to a file somebody else wrote; it saves and loads.
\* messages add_message can append besides those of BodyMessages
OtherBodyMessages ==
    { AIMessage(AIC_ROLE_USER, "", AIC_TYPE_IMAGE_URL, ReadableFile, FALSE),
      AIMessage(AIC_ROLE_INTERNAL, "a", AIC_TYPE_TEXT, NoneVal, FALSE),
      AIMessage(AIC_ROLE_USER, "a", AIC_TYPE_INTERNAL, NoneVal, TRUE) }

\* the conversations of n messages the constructor, add_message, new_topic
\* and the stickiness setters build
BuiltHistories(n) ==
    { << h >> \o t : h \in HeadMessages,
                     t \in [1..(n - 1) -> BodyMessages \cup OtherBodyMessages] }

\* the lines of a file: records of messages, and malformed lines
GoodLines ==
    { json_dumps(to_dict(m)) :
        m \in { AIMessage(AIC_ROLE_SYSTEM, "a", AIC_TYPE_TEXT, NoneVal, TRUE),
                AIMessage(AIC_ROLE_USER, "a", AIC_TYPE_TEXT, NoneVal, FALSE) } }

ARecord == to_dict(AIMessage(AIC_ROLE_ASSISTANT, "bb", AIC_TYPE_TEXT, NoneVal, FALSE))

BadLines ==
    { [ parses |-> FALSE, keys |-> {}, value |-> ARecord ],
      [ parses |-> TRUE, keys |-> RecordFields \ { "sticky" }, value |-> ARecord ],
      json_dumps([ARecord EXCEPT !.role = AIC_ROLE_UNKNOWN]),
      json_dumps([ARecord EXCEPT !.msg_type = AIC_TYPE_FILE]),
      json_dumps([ARecord EXCEPT !.content_text = ""]) }

Files(n) == [1..n -> GoodLines \cup BadLines]

PersistInit ==
    /\ last_call = NoCall
    /\ RenamerIdle
    /\ \/ \E n \in 1..MaxCallLen, max_memory \in 0..MaxWindow :
            \E msgs \in BuiltHistories(n) :
              /\ StartFrom(msgs, max_memory)
              /\ file = NoFile
       \/ \E n \in 0..MaxLines, max_memory \in 0..MaxWindow :
            \E lines \in Files(n) :
              /\ Construct(NoneVal, max_memory)
              /\ file = [ exists |-> TRUE, lines |-> lines ]

CallSaveConversation ==
    /\ last_call = NoCall
    /\ SaveConversation
    /\ last_call' = [ op |-> "save_conversation", args |-> << >>,
                      messages |-> messages, counters |-> counters,
                      max_memory |-> max_memory_messages, result |-> << >> ]
    /\ UNCHANGED renamer

CallLoadConversation ==
    /\ last_call.op \in { NoCall.op, "save_conversation" }
    /\ LoadConversation
    /\ last_call' = [ op |-> "load_conversation", args |-> << last_call.op >>,
                      messages |-> messages, counters |-> counters,
                      max_memory |-> max_memory_messages, result |-> << >> ]
    /\ UNCHANGED renamer

\* restart() on what load_conversation left
RestartLoaded ==
    /\ last_call.op = "load_conversation"
    /\ Restart
    /\ last_call' = [ op |-> "restart", args |-> << >>,
                      messages |-> messages, counters |-> counters,
                      max_memory |-> max_memory_messages, result |-> << >> ]
    /\ UNCHANGED << file, renamer >>

PersistNext ==
    \/ CallSaveConversation
    \/ CallLoadConversation
    \/ RestartLoaded

PersistSpec == PersistInit /\ [][PersistNext]_vars

\* ------------------------------------------------- the renamer's main loop
\* RenamerSpec is the loop of main() in smart_pdf_renamer.py: for each PDF
\* it asks for a new name, fixes a missing date, appends pdf_count if the
\* name is taken in PDF_DONE_FOLDER, and moves the PDF there.
\* A proposed name is a date followed by a title; a file name is its text.
MaxPdfs == 3

\* the date the naming step writes when it found none
MissingDate == "0000-00-00"
\* what get_file_date(the_pdf) returns
FileDates == { "2024-05-01" }
Titles == { "_x", "_x_1", "_x_2" }

\* what pdf_to_images_to_filename(the_pdf) returns when it returns a name
ProposedNames == [ date : { MissingDate } \cup FileDates, title : Titles ]

\* the_new_filename.startswith("0000-00-00") and .replace(...)
ReplaceMissingDate(name, original_file_date) ==
    IF name.date = MissingDate
    THEN [ name EXCEPT !.date = original_file_date ]
    ELSE name

\* os.path.splitext(the_new_filename) of a name that ends in ".pdf"
splitext(name) ==
    [ base |-> name.date \o name.title, ext |-> ".pdf" ]

\* the_new_filename after "the_new_filename + '.pdf'"
FileName(name) == splitext(name).base \o splitext(name).ext

\* f"{base}_{pdf_count}{ext}"
NameWithCount(name, count) ==
    splitext(name).base \o "_" \o ToString(count) \o splitext(name).ext

\* the name the loop moves the PDF under: pdf_count is appended when the
\* proposed name exists in PDF_DONE_FOLDER, and the result is not looked up
the_new_filename(name, count, folder) ==
    IF FileName(name) \in folder
    THEN NameWithCount(name, count)
    ELSE FileName(name)

\* what PDF_DONE_FOLDER may hold before the run
PriorFiles == { FileName(n) : n \in [ date : FileDates, title : Titles ] }

RenamerInit ==
    /\ Construct(NoneVal, 1)
    /\ file = NoFile
    /\ last_call = NoCall
    /\ done_folder \in SUBSET PriorFiles
    /\ how_many_pdfs \in 1..MaxPdfs
    /\ pdf_count = 0
    /\ moved = NoMove

ConversationUnchanged ==
    UNCHANGED << messages, max_memory_messages, counters, raised, file, last_call >>

\* one pass of the loop on a PDF that got a name. os.rename onto a file
\* that exists replaces it on POSIX and raises FileExistsError on Windows,
\* which the loop catches and logs as "Error renaming".
RenamePdf ==
    /\ pdf_count < how_many_pdfs
    /\ pdf_count' = pdf_count + 1
    /\ \E proposal \in ProposedNames, original_file_date \in FileDates,
          rename_replaces \in BOOLEAN :
        LET name   == ReplaceMissingDate(proposal, original_file_date)
            target == the_new_filename(name, pdf_count + 1, done_folder)
            taken  == target \in done_folder
        IN  /\ done_folder' = IF taken /\ ~rename_replaces
                              THEN done_folder
                              ELSE done_folder \cup { target }
            /\ moved' = [ outcome |-> IF ~taken THEN "moved"
                                      ELSE IF rename_replaces THEN "replaced"
                                      ELSE "Error renaming",
                          proposed |-> FileName(name),
                          exists |-> FileName(name) \in done_folder,
                          target |-> target,
                          target_exists |-> taken ]
    /\ UNCHANGED how_many_pdfs
    /\ ConversationUnchanged

\* one pass of the loop on a PDF for which no name was found (None or "")
NoNewNameFound ==
    /\ pdf_count < how_many_pdfs
    /\ pdf_count' = pdf_count + 1
    /\ moved' = [ NoMove EXCEPT !.outcome = "No new name found" ]
    /\ UNCHANGED << done_folder, how_many_pdfs >>
    /\ ConversationUnchanged

RenamerNext ==
    \/ RenamePdf
    \/ NoNewNameFound

RenamerSpec == RenamerInit /\ [][RenamerNext]_vars

\* ------------------------------------------------------------- properties
IsSystem(m) == m.role \in { AIC_ROLE_SYSTEM, AIC_ROLE_DEVELOPER }
IsMarker(m) == m.role = AIC_ROLE_INTERNAL /\ m.text = AIC_COMMAND_NEWTOPIC
HasMarker   == \E i \in 1..Len(messages) : IsMarker(messages[i])
LastMarker  == CHOOSE i \in 1..Len(messages) :
                   /\ IsMarker(messages[i])
                   /\ \A j \in (i + 1)..Len(messages) : ~IsMarker(messages[j])

\* positions returned by get_memory_messages() in the current state
MemPos      == MemoryPositions(messages, max_memory_messages)
InMemory(p) == \E k \in 1..Len(MemPos) : MemPos[k] = p

\* the elements of a set of integers, in increasing order
Ascending(S) ==
    [ i \in 1..Cardinality(S) |-> CHOOSE x \in S : Cardinality({ y \in S : y < x }) = i - 1 ]

\* the messages of msgs at the positions of S, in their order in msgs
Keep(msgs, S) == LET p == Ascending(S) IN [ i \in 1..Len(p) |-> msgs[p[i]] ]

\* C1: in every state reachable by the public operations (with a positive
\* max_memory_messages), every stored counter equals the value
\* recalculate_tokens() would compute from the current messages and
\* max_memory_messages.
C1_CountersEqualRescan ==
    max_memory_messages >= 1 =>
        Stored = Recalculate(messages, max_memory_messages, system_message_tokens)

\* C2: after add_message calls only (roles user, assistant, system) on a fresh
\* conversation with max_memory_messages >= 1, each incrementally maintained
\* counter is the one recalculate_tokens() would then set.
C2_IncrementalEqualsRescan ==
    max_memory_messages >= 1 =>
        LET r == Recalculate(messages, max_memory_messages, system_message_tokens)
        IN  counters = << r.system_message_tokens, r.user_tokens, r.assistant_tokens,
                          r.total_tokens, r.biggest_user_msg_tokens,
                          r.biggest_assistant_msg_tokens, r.memory_user_tokens,
                          r.memory_assistant_tokens, r.memory_total_tokens >>

\* C3: the message list is never empty, its first message has role system or
\* developer, and no later message has.
C3_OneSystemMessageAtIndex0 ==
    max_memory_messages >= 1 =>
        /\ Len(messages) >= 1
        /\ IsSystem(messages[1])
        /\ \A i \in 2..Len(messages) : ~IsSystem(messages[i])

\* C4: remove_messages and remove_non_sticky_messages never remove the message
\* at index 0: after the call it is the same message and the list is not empty.
C4_RemoveKeepsIndex0 ==
    [][ ( /\ max_memory_messages >= 1
          /\ Len(messages) >= 1
          /\ \/ \E n \in 0..(MaxLen - 1), remove_sticky \in BOOLEAN :
                    RemoveMessages(n, remove_sticky)
             \/ \E n \in 0..(MaxLen - 1) : RemoveNonStickyMessages(n) )
        => ( Len(messages') >= 1 /\ messages'[1] = messages[1] ) ]_vars

\* positions behind index 0 holding a non-sticky message
NonStickyBehindHead(msgs) == { i \in 2..Len(msgs) : ~msgs[i].sticky }

\* the r most recent of them
MostRecent(S, r) == { i \in S : Cardinality({ j \in S : j > i }) < r }

\* C5: remove_messages(n, remove_sticky=False) removes exactly the min(n, k)
\* most recent non-sticky messages behind index 0 (k of them exist) and keeps
\* every other message, in order.
C5_RemoveNonStickyExact ==
    [][ \A n \in 0..(MaxLen - 1) :
          ( max_memory_messages >= 1 /\ RemoveMessages(n, FALSE) ) =>
            LET ns   == NonStickyBehindHead(messages)
                gone == MostRecent(ns, Min(n, Cardinality(ns)))
            IN  messages' = Keep(messages, (1..Len(messages)) \ gone) ]_vars

\* C6: with max_memory_messages = M >= 1, a system message at index 0, and n
\* later messages none of which is sticky or a topic marker,
\* get_memory_messages() is the system message followed by the last min(M, n)
\* messages.
C6_WindowIsSystemPlusLastM ==
    ( /\ max_memory_messages >= 1
      /\ Len(messages) >= 1
      /\ IsSystem(messages[1])
      /\ \A i \in 2..Len(messages) : ~messages[i].sticky /\ ~IsMarker(messages[i]) )
    => LET n == Len(messages) - 1
           k == Min(max_memory_messages, n)
       IN  MemPos = << 1 >> \o [ i \in 1..k |-> Len(messages) - k + i ]

MarkerInWindow ==
    \E i \in 1..Len(messages) :
        i > Len(messages) - max_memory_messages /\ IsMarker(messages[i])

C8_NothingOlderThanMarker ==
    ( max_memory_messages >= 1 /\ HasMarker ) =>
        \A k \in 1..Len(MemPos) : MemPos[k] = 1 \/ MemPos[k] >= LastMarker

\* C9: when the history has a topic marker, the system message (index 0) is
\* the first element of get_memory_messages().
C9_SystemFirstAfterMarker ==
    ( /\ max_memory_messages >= 1
      /\ HasMarker
      /\ IsSystem(messages[1]) )
    => ( Len(MemPos) >= 1 /\ MemPos[1] = 1 )

\* the history C10 is about: a system message at index 0, no topic marker,
\* more than max_memory_messages >= 1 messages behind index 0
C10_Case ==
    /\ max_memory_messages >= 1
    /\ Len(messages) >= 1
    /\ IsSystem(messages[1])
    /\ ~HasMarker
    /\ Len(messages) - 1 > max_memory_messages

\* the last max_memory_messages positions
LastM == { i \in 1..Len(messages) : i > Len(messages) - max_memory_messages }

C11_Rejected(role, text, type, url) ==
    \/ role \notin { AIC_ROLE_SYSTEM, AIC_ROLE_USER, AIC_ROLE_ASSISTANT,
                    AIC_ROLE_DEVELOPER, AIC_ROLE_INTERNAL }
    \/ type \notin { AIC_TYPE_TEXT, AIC_TYPE_IMAGE_URL, AIC_TYPE_INTERNAL }
    \/ type \in { AIC_TYPE_TEXT, AIC_TYPE_INTERNAL } /\ text \in { NoneVal, "" }
    \/ type = AIC_TYPE_IMAGE_URL /\ url \in { NoneVal, "" }

\* C11: when add_message fails validation (unrecognized role, unsupported or
\* unknown type, missing or empty required text or image URL) it raises an
\* error and leaves the message list and every counter as they were.
C11_FailedAddChangesNothing ==
    ( /\ last_call.op = "add_message"
      /\ C11_Rejected(last_call.args[1], last_call.args[2], last_call.args[3],
                      last_call.args[4]) )
    => /\ raised # NoError
       /\ messages = last_call.messages
       /\ counters = last_call.counters

\* C11 witness: a rejected system message on a conversation with a history
C11_Witness ==
    /\ last_call.op = "add_message"
    /\ last_call.args[1] = AIC_ROLE_SYSTEM
    /\ last_call.args[2] = ""
    /\ raised = ValueError
    /\ Len(messages) >= 2
    /\ messages = last_call.messages
    /\ total_tokens > 0

\* the recorded call was made, with a positive max_memory_messages, on a
\* conversation that starts with its system message
OnConversation ==
    /\ max_memory_messages >= 1
    /\ Len(last_call.messages) >= 1
    /\ IsSystem(last_call.messages[1])

\* C12: add_message with role system or developer on a non-empty store
\* replaces the message at index 0, keeps the length and every later message,
\* changes total_tokens and memory_total_tokens by (tokens of the new message
\* - tokens of the replaced one) and sets system_message_tokens to the new
\* message's tokens.
C12_HeadReplacedAndCounted ==
    ( /\ last_call.op = "add_message"
      /\ last_call.args[1] \in { AIC_ROLE_SYSTEM, AIC_ROLE_DEVELOPER }
      /\ raised = NoError
      /\ OnConversation )
    => LET before == last_call.messages
           new == AIMessage(last_call.args[1], last_call.args[2], last_call.args[3],
                            last_call.args[4], last_call.args[5])
           delta == new.tokens - before[1].tokens
       IN  /\ messages = [before EXCEPT ![1] = new]
           /\ total_tokens = last_call.counters[4] + delta
           /\ memory_total_tokens = last_call.counters[9] + delta
           /\ system_message_tokens = new.tokens

\* C13: no payload built for the model holds a message with role internal:
\* not the windowed payloads, not the full-history payloads.
C13_NoInternalInPayloads ==
    ( max_memory_messages >= 1 /\ Len(messages) >= 1 /\ IsSystem(messages[1]) ) =>
    /\ AIC_ROLE_INTERNAL \notin PayloadRoles(get_conversation_payload)
    /\ AIC_ROLE_INTERNAL \notin PayloadRoles(get_conversation_python_memory_payload)
    /\ AIC_ROLE_INTERNAL \notin PayloadRoles(get_conversation_history_payload)
    /\ AIC_ROLE_INTERNAL \notin PayloadRoles(get_conversation_python_history_payload)

\* the marker message new_topic() builds
TopicMarker ==
    [ role |-> AIC_ROLE_INTERNAL, type |-> AIC_TYPE_INTERNAL,
      text |-> AIC_COMMAND_NEWTOPIC, url |-> NoneVal, sticky |-> FALSE, tokens |-> 0 ]

\* C14: new_topic() appends exactly one message with role internal, type
\* internal and the marker text, keeps every existing message and leaves every
\* token counter unchanged, whatever the length of the conversation.
C14_NewTopicAppendsMarkerOnly ==
    last_call.op = "new_topic" =>
        /\ raised = NoError
        /\ messages = Append(last_call.messages, TopicMarker)
        /\ counters = last_call.counters

\* C14 witness: new_topic() on a conversation of three messages that has
\* counted tokens
C14_Witness ==
    /\ last_call.op = "new_topic"
    /\ Len(last_call.messages) = 3
    /\ IsSystem(last_call.messages[1])
    /\ max_memory_messages = 1
    /\ total_tokens > 0 /\ memory_total_tokens > 0
    /\ Len(messages) = 4 /\ IsMarker(messages[4])

\* the five fields of a message that a record holds
SameFields(m1, m2) ==
    /\ m1.role = m2.role /\ m1.type = m2.type /\ m1.text = m2.text
    /\ m1.url = m2.url /\ m1.sticky = m2.sticky

\* C15: for every message m of a conversation, AIMessage.from_dict(m.to_dict())
\* succeeds and has the role, type, text, image_url and sticky of m.
C15_FromDictOfToDict ==
    max_memory_messages >= 1 =>
    \A i \in 1..Len(messages) :
        LET r == from_dict(to_dict(messages[i]))
        IN  /\ r.raised = NoError
            /\ SameFields(r.message, messages[i])

\* C18: every stored message with role internal has type internal, and
\* add_message with role internal and type text or image_url fails.
C18_InternalRoleHasInternalType ==
    ( last_call.op = "add_message" /\ OnConversation ) =>
        /\ \A i \in 1..Len(messages) :
              messages[i].role = AIC_ROLE_INTERNAL => messages[i].type = AIC_TYPE_INTERNAL
        /\ ( /\ last_call.args[1] = AIC_ROLE_INTERNAL
             /\ last_call.args[3] \in { AIC_TYPE_TEXT, AIC_TYPE_IMAGE_URL } )
           => raised # NoError

\* the combinations C19 lists as failing
C19_Listed(role, text, type, url) ==
    \/ role \notin ValidRoles
    \/ type \in { AIC_TYPE_FILE, AIC_TYPE_UNKNOWN }
    \/ type \in { AIC_TYPE_TEXT, AIC_TYPE_INTERNAL } /\ Missing(text)
    \/ type = AIC_TYPE_IMAGE_URL /\ Missing(url)

C20_RemoveStickyTruncates ==
    ( /\ last_call.op = "remove_messages"
      /\ last_call.args[2] = TRUE
      /\ last_call.args[1] >= 0 ) =>
        LET before == last_call.messages
            k == Min(last_call.args[1], Len(before) - 1)
        IN  /\ raised = NoError
            /\ messages = IF k > 0 THEN SubSeq(before, 1, Len(before) - k) ELSE before

\* C20 witness: remove_messages(2, True) on S, A(sticky), B(sticky) leaves S
C20_Witness ==
    /\ last_call.op = "remove_messages"
    /\ last_call.args = << 2, TRUE >>
    /\ Len(last_call.messages) = 3
    /\ last_call.messages[2].sticky /\ last_call.messages[3].sticky
    /\ messages = << last_call.messages[1] >>

\* C16: on a conversation built by the constructor, add_message, new_topic
\* and the stickiness setters, save_conversation(p) followed by
\* load_conversation(p) leaves a message list equal to the original element by
\* element (role, type, text, image_url, sticky) and in the same order, and
\* recalculate_tokens() then gives the counters it gave on the original.
C16_SaveThenLoad ==
    ( /\ last_call.op = "load_conversation"
      /\ last_call.args = << "save_conversation" >>
      /\ Len(last_call.messages) >= 1
      /\ IsSystem(last_call.messages[1]) )
    => /\ raised = NoError
       /\ Len(messages) = Len(last_call.messages)
       /\ \A i \in 1..Len(messages) : SameFields(messages[i], last_call.messages[i])
       /\ Recalculate(messages, max_memory_messages, system_message_tokens)
            = Recalculate(last_call.messages, max_memory_messages,
                          last_call.counters[1])

\* C16 witness: a saved and reloaded conversation with a sticky message, a
\* topic marker and an image
C16_Witness ==
    /\ last_call.op = "load_conversation"
    /\ last_call.args = << "save_conversation" >>
    /\ Len(messages) = 3
    /\ messages = last_call.messages
    /\ messages[1].sticky
    /\ IsMarker(messages[2])
    /\ messages[3].type = AIC_TYPE_IMAGE_URL

\* a line load_conversation can add: a parseable record with every field, a
\* valid role, a valid type and its payload
WellFormed(line) ==
    /\ line.parses
    /\ RecordFields \subseteq line.keys
    /\ ~C19_Listed(line.value.role, line.value.content_text, line.value.msg_type,
                   line.value.content_image_url)

\* what replaying lines through add_message on an empty conversation gives
RECURSIVE Replay(_, _, _)
Replay(lines, i, msgs) ==
    IF i > Len(lines) THEN msgs
    ELSE LET d == lines[i].value
         IN  Replay(lines, i + 1,
                    add_message(msgs, ZeroCounters, max_memory_messages, d.role,
                                d.content_text, d.msg_type, d.content_image_url,
                                d.sticky).messages)

\* C17: load_conversation on a file with malformed lines skips exactly those
\* lines, adds every well-formed line in file order and does not raise.
C17_MalformedLinesSkipped ==
    ( /\ last_call.op = "load_conversation"
      /\ max_memory_messages >= 1
      /\ file.exists )
    => /\ raised = NoError
       /\ messages = Replay(SelectSeq(file.lines, WellFormed), 1, << >>)

\* C21: remove_messages(n, ...) and remove_non_sticky_messages(n) with n < 0
\* raise an error and leave the message list and every counter unchanged.
C21_NegativeCountRejected ==
    ( /\ last_call.op \in { "remove_messages", "remove_non_sticky_messages" }
      /\ last_call.args[1] < 0 )
    => /\ raised = ValueError
       /\ messages = last_call.messages
       /\ counters = last_call.counters
       /\ max_memory_messages = last_call.max_memory

\* remove_messages(-1, False) was called on a conversation of three messages
C21_Witness ==
    /\ last_call.op = "remove_messages"
    /\ last_call.args = << -1, FALSE >>
    /\ raised = ValueError
    /\ Len(messages) = 3
    /\ total_tokens > 0

\* C22: max_memory_messages is a positive integer in every reachable state:
\* the constructor and set_max_memory_messages both reject a value <= 0.
C22_MaxMemoryPositive ==
    max_memory_messages >= 1

\* C23: recalculate_tokens() is idempotent: called twice in a row, every
\* counter after the second call equals its value after the first call; and
\* no call of it changes the message list or max_memory_messages.
C23_RecalculateIdempotent ==
    last_call.op = "recalculate_tokens"
    => /\ messages = last_call.messages
       /\ max_memory_messages = last_call.max_memory
       /\ raised = NoError
       /\ last_call.args[1] = "recalculate_tokens" => counters = last_call.counters

\* the second of two calls in a row, on a conversation with a system, a user
\* and an assistant message
C23_Witness ==
    /\ last_call.op = "recalculate_tokens"
    /\ last_call.args = << "recalculate_tokens" >>
    /\ Len(messages) = 3
    /\ system_message_tokens > 0
    /\ user_tokens > 0
    /\ assistant_tokens > 0

\* the step leaves the role, the type and the text of the message at index 0
\* as they were
HeadUnchanged ==
    Len(messages) >= 1
    => /\ Len(messages') >= 1
       /\ messages'[1].role = messages[1].role
       /\ messages'[1].type = messages[1].type
       /\ messages'[1].text = messages[1].text

\* C24: the message at index 0 is changed only by add_message with role
\* system or developer: add_message with another role, new_topic,
\* remove_messages, remove_non_sticky_messages, restart,
\* set_max_memory_messages and recalculate_tokens leave its role, type and
\* text unchanged. (change_system_message, which the claim lists too, assigns
\* index 0 by design, lines 398-403; it is left out of the formula, which so
\* fails only where an operation meant to keep index 0 loses it.)
C24_OnlySystemAddChangesIndex0 ==
    [][ ( /\ max_memory_messages >= 1
          /\ \/ AddUserOrAssistant
             \/ CallNewTopic
             \/ CallRemoveMessages
             \/ CallRemoveNonStickyMessages
             \/ CallRestart
             \/ CallSetMaxMemoryMessages
             \/ CallRecalculateTokens )
        => HeadUnchanged ]_vars

\* the message the recorded add_message call stored
Added ==
    IF last_call.args[1] \in { AIC_ROLE_SYSTEM, AIC_ROLE_DEVELOPER }
    THEN messages[1]
    ELSE messages[Len(messages)]

\* an add_message call of the given type succeeded
AddedOfType(type) ==
    /\ last_call.op = "add_message"
    /\ last_call.args[3] = type
    /\ raised = NoError

\* C25: the estimated token count of an image message is the fixed constant
\* 765, independent of its caption text and of its image URL; the estimated
\* token count of an internal-type message is 0.
C25_ImageTokensFixed ==
    OnConversation
    => /\ AddedOfType(AIC_TYPE_IMAGE_URL) => Added.tokens = PictureTokens
       /\ AddedOfType(AIC_TYPE_INTERNAL)  => Added.tokens = 0

\* C25, amended: the estimated token count of an image message is 765 plus
\* the token count of its caption text, independent of its image URL; the
\* estimated token count of an internal-type message is 0.
C25_ImageTokensFixedPlusCaption ==
    /\ AddedOfType(AIC_TYPE_IMAGE_URL)
       => Added.tokens = PictureTokens + num_tokens_from_string(last_call.args[2])
    /\ AddedOfType(AIC_TYPE_INTERNAL)  => Added.tokens = 0

\* an image read from a local file was added with the caption "a"
C25_Witness ==
    /\ AddedOfType(AIC_TYPE_IMAGE_URL)
    /\ last_call.args[2] = "a"
    /\ last_call.args[4] = ReadableFile
    /\ Added.type = AIC_TYPE_IMAGE_URL
    /\ Added.tokens = PictureTokens + 1

\* C26: restart() leaves a message list of exactly one element, the message
\* that was at index 0 before the call, for every reachable conversation;
\* max_memory_messages is unchanged.
C26_RestartKeepsIndex0Only ==
    ( last_call.op = "restart" /\ max_memory_messages >= 1 )
    => /\ raised = NoError
       /\ Len(last_call.messages) >= 1
       /\ messages = << last_call.messages[1] >>
       /\ max_memory_messages = last_call.max_memory

\* C27: get_messages_count called with memory_only=False and the other flags
\* at their defaults returns the number of all messages of the conversation,
\* the system message included, i.e. len(messages), for every history,
\* also with sticky and internal messages.
C27_CountIsLength ==
    ( /\ max_memory_messages >= 1
      /\ Len(messages) >= 1
      /\ IsSystem(messages[1]) )
    => get_messages_count(FALSE, FALSE, FALSE) = Len(messages)

\* C28: appending a user or assistant message of t tokens through
\* add_message increases total_tokens and the all-time counter of that role
\* (user_tokens or assistant_tokens) by exactly t, also when the eviction
\* adjustment applies (len before the append > max_memory_messages + 2): the
\* evicted message's tokens leave the memory-scoped counters only.
C28_AppendAddsToAllTimeCounters ==
    ( /\ OnConversation
      /\ last_call.op = "add_message"
      /\ last_call.args[1] \in { AIC_ROLE_USER, AIC_ROLE_ASSISTANT }
      /\ raised = NoError )
    => LET t == Added.tokens
       IN  /\ total_tokens = last_call.counters[4] + t
           /\ last_call.args[1] = AIC_ROLE_USER
              => /\ user_tokens = last_call.counters[2] + t
                 /\ assistant_tokens = last_call.counters[3]
           /\ last_call.args[1] = AIC_ROLE_ASSISTANT
              => /\ assistant_tokens = last_call.counters[3] + t
                 /\ user_tokens = last_call.counters[2]

C30_RecalculateForgetsOldCounters ==
    [][ ( max_memory_messages >= 1 /\ CallRecalculateTokens )
        => Stored' = Recalculate(messages', max_memory_messages', 0) ]_vars

\* C31: every token counter (total, user, assistant, system, memory-total,
\* memory-user, memory-assistant) is >= 0 in every state reachable by
\* add_message, new_topic, remove_messages, restart and
\* set_max_memory_messages calls, for messages whose token estimates are
\* non-negative.
C31_CountersNonNegative ==
    ( /\ max_memory_messages >= 1
      /\ Len(messages) >= 1
      /\ IsSystem(messages[1]) )
    => /\ total_tokens >= 0
       /\ user_tokens >= 0
       /\ assistant_tokens >= 0
       /\ system_message_tokens >= 0
       /\ memory_total_tokens >= 0
       /\ memory_user_tokens >= 0
       /\ memory_assistant_tokens >= 0

\* C32: in every reachable state, memory_total_tokens = memory_user_tokens +
\* memory_assistant_tokens + system_message_tokens.
C32_MemoryTotalIsSum ==
    max_memory_messages >= 1
    => memory_total_tokens
         = memory_user_tokens + memory_assistant_tokens + system_message_tokens

\* C33: in every reachable state each memory-scoped counter is at most its
\* all-time counterpart: memory_total_tokens <= total_tokens,
\* memory_user_tokens <= user_tokens and memory_assistant_tokens <=
\* assistant_tokens.
C33_MemoryAtMostAllTime ==
    /\ memory_total_tokens <= total_tokens
    /\ memory_user_tokens <= user_tokens
    /\ memory_assistant_tokens <= assistant_tokens

\* a conversation of four messages whose window leaves user and assistant
\* tokens out: each memory counter is strictly below its counterpart
C33_Witness ==
    /\ max_memory_messages = 1
    /\ Len(messages) = 4
    /\ IsSystem(messages[1])
    /\ memory_total_tokens < total_tokens
    /\ memory_user_tokens < user_tokens
    /\ memory_assistant_tokens < assistant_tokens

\* C34: for every history, the result of get_memory_messages() is a
\* subsequence of the message list: every returned message is a stored
\* message, no stored message is returned twice (the message at index 0 in
\* particular) and the returned messages keep their relative order.
C34_WindowIsSubsequence ==
    /\ \A k \in 1..Len(MemPos) : MemPos[k] \in 1..Len(messages)
    /\ \A j \in 1..Len(MemPos), k \in 1..Len(MemPos) :
           j < k => MemPos[j] < MemPos[k]
    /\ Len(get_memory_messages) = Len(MemPos)
    /\ \A k \in 1..Len(MemPos) : get_memory_messages[k] = messages[MemPos[k]]

\* a topic marker stops the walk and the system message is inserted in front:
\* of S, U, marker, A the call returns S and A
C34_Witness ==
    /\ max_memory_messages = 2
    /\ Len(messages) = 4
    /\ IsSystem(messages[1])
    /\ IsMarker(messages[3])
    /\ MemPos = << 1, 4 >>
    /\ get_memory_messages = << messages[1], messages[4] >>

\* positions of the returned messages that are not sticky
NonStickyInMemory == { k \in 1..Len(MemPos) : ~messages[MemPos[k]].sticky }

\* C35: for every history and every max_memory_messages >= 1, the number of
\* non-sticky messages in the result of get_memory_messages() is at most
\* max_memory_messages (only sticky messages make the window larger).
C35_NonStickyWithinLimit ==
    max_memory_messages >= 1
    => Cardinality(NonStickyInMemory) <= max_memory_messages

\* with a window of 1, of S (sticky), U (sticky), A, B the call returns S, U
\* and B: three messages, one of them not sticky
C35_Witness ==
    /\ max_memory_messages = 1
    /\ Len(messages) = 4
    /\ messages[1].sticky /\ messages[2].sticky
    /\ ~messages[3].sticky /\ ~messages[4].sticky
    /\ MemPos = << 1, 2, 4 >>
    /\ Cardinality(NonStickyInMemory) = 1

\* the sum of the token estimates of the messages of seq that have the role
RECURSIVE TokensOfRole(_, _)
TokensOfRole(seq, role) ==
    IF Len(seq) = 0 THEN 0
    ELSE (IF Head(seq).role = role THEN Head(seq).tokens ELSE 0)
         + TokensOfRole(Tail(seq), role)

\* C36: immediately after recalculate_tokens(), memory_user_tokens equals the
\* sum of the token estimates of the user-role messages get_memory_messages()
\* returns, and memory_assistant_tokens the sum for the assistant-role
\* messages returned, for every history (sticky messages, internal messages
\* and topic markers included).
C36_MemoryCountersMatchWindow ==
    ( /\ last_call.op = "recalculate_tokens"
      /\ max_memory_messages >= 1
      /\ Len(messages) >= 1
      /\ IsSystem(messages[1]) )
    => /\ memory_user_tokens = TokensOfRole(get_memory_messages, AIC_ROLE_USER)
       /\ memory_assistant_tokens
            = TokensOfRole(get_memory_messages, AIC_ROLE_ASSISTANT)

\* C37: for every history without an internal message and without a sticky
\* message at an index >= 1, get_messages_count(memory_only=True,
\* count_sticky=False, count_internal=False) equals get_memory_messages_no(),
\* i.e. min(len(messages), max_memory_messages + 1), whether or not the system
\* message is sticky.
C37_MemoryCountIsMemoryNo ==
    ( /\ max_memory_messages >= 1
      /\ \A i \in 1..Len(messages) : messages[i].type # AIC_TYPE_INTERNAL
      /\ \A i \in 2..Len(messages) : ~messages[i].sticky )
    => get_messages_count(TRUE, FALSE, FALSE) = get_memory_messages_no

\* C38: if load_conversation fails (the file cannot be opened, or an error is
\* raised while reading it), the message list and the counters are the same
\* as before the call.
C38_FailedLoadChangesNothing ==
    ( /\ last_call.op = "load_conversation"
      /\ max_memory_messages >= 1
      /\ raised # NoError )
    => /\ messages = last_call.messages
       /\ counters = last_call.counters

\* C39: in the renamer's main loop, moving a PDF into the DONE folder never
\* replaces a file that is already there: whenever the proposed name is
\* present in DONE, the PDF is moved under a name that is not present in
\* DONE, whatever DONE held before and whatever names were proposed.
C39_MoveNeverReplaces ==
    /\ moved.outcome # "replaced"
    /\ moved.exists => ~moved.target_exists

====
